---------------------------- MODULE Spec2Model ----------------------------
(***************************************************************************)
(* Model of frontend/app.py, the ARGO Float Explorer: two cached read      *)
(* queries over the measurements table (get_summary, get_profiles) and the *)
(* chat dispatcher that maps a typed question to one of six SQL templates. *)
(*                                                                         *)
(* Text is modelled as a sequence of one-character strings, so that        *)
(* strip(), lower(), the 'in' substring test and re.search are computed    *)
(* character by character as Python computes them.                         *)
(***************************************************************************)
EXTENDS Integers, Sequences, FiniteSets, TLC

(***************************************************************************)
(* Bounds of the model.                                                    *)
(***************************************************************************)
\* most phrases concatenated into one typed question
MaxPhrases == 2
\* most rows of the measurements table
MaxStoreRows == 3
\* largest max_rows argument tried on get_profiles called directly
MaxRowsArg == 2
\* most connections left open at once (storage errors are not injected
\* beyond it)
MaxLeaked == 1

\* get_profiles(float_id, max_rows=5000)
DefaultMaxRows == 5000

(***************************************************************************)
(* Text.                                                                   *)
(***************************************************************************)
\* the characters str.strip() removes and the regex class \s matches
Whitespace == {" ", "\t", "\n", "\r"}

\* the regex class [0-9]
Digits == {"0", "1", "2", "3", "4", "5", "6", "7", "8", "9"}

DigitValue ==
    ("0" :> 0) @@ ("1" :> 1) @@ ("2" :> 2) @@ ("3" :> 3) @@ ("4" :> 4) @@
    ("5" :> 5) @@ ("6" :> 6) @@ ("7" :> 7) @@ ("8" :> 8) @@ ("9" :> 9)

LowerOf ==
    ("A" :> "a") @@ ("B" :> "b") @@ ("C" :> "c") @@ ("D" :> "d") @@
    ("E" :> "e") @@ ("F" :> "f") @@ ("G" :> "g") @@ ("H" :> "h") @@
    ("I" :> "i") @@ ("J" :> "j") @@ ("K" :> "k") @@ ("L" :> "l") @@
    ("M" :> "m") @@ ("N" :> "n") @@ ("O" :> "o") @@ ("P" :> "p") @@
    ("Q" :> "q") @@ ("R" :> "r") @@ ("S" :> "s") @@ ("T" :> "t") @@
    ("U" :> "u") @@ ("V" :> "v") @@ ("W" :> "w") @@ ("X" :> "x") @@
    ("Y" :> "y") @@ ("Z" :> "z")

\* str.lower()
Lower(s) ==
    [i \in 1..Len(s) |-> IF s[i] \in DOMAIN LowerOf THEN LowerOf[s[i]] ELSE s[i]]

\* the first index >= j of s whose character is outside cls (Len(s)+1 when
\* none is): where a run of cls characters that starts at j ends
RECURSIVE SkipWhile(_, _, _)
SkipWhile(s, j, cls) ==
    IF j <= Len(s) /\ s[j] \in cls THEN SkipWhile(s, j + 1, cls) ELSE j

\* the last index <= j of s whose character is outside cls (0 when none is)
RECURSIVE SkipBack(_, _, _)
SkipBack(s, j, cls) ==
    IF j >= 1 /\ s[j] \in cls THEN SkipBack(s, j - 1, cls) ELSE j

\* str.strip(): drop the leading and the trailing run of whitespace
Strip(s) ==
    SubSeq(s, SkipWhile(s, 1, Whitespace), SkipBack(s, Len(s), Whitespace))

\* s[i:i+len(w)] == w
HasAt(s, i, w) ==
    /\ i >= 1
    /\ i + Len(w) - 1 <= Len(s)
    /\ \A k \in 1..Len(w) : s[i + k - 1] = w[k]

\* Python's 'w in s' on strings
Contains(s, w) ==
    \E i \in 1..(Len(s) - Len(w) + 1) : HasAt(s, i, w)

\* bool(s) of a string: the empty string alone is falsy
Truthy(s) == Len(s) > 0

kw_how_many_profiles ==
    <<"h","o","w"," ","m","a","n","y"," ","p","r","o","f","i","l","e","s">>
kw_count_profiles ==
    <<"c","o","u","n","t"," ","p","r","o","f","i","l","e","s">>
kw_latest_profile ==
    <<"l","a","t","e","s","t"," ","p","r","o","f","i","l","e">>
kw_last_profile ==
    <<"l","a","s","t"," ","p","r","o","f","i","l","e">>
kw_max_temperature ==
    <<"m","a","x"," ","t","e","m","p","e","r","a","t","u","r","e">>
kw_highest_temperature ==
    <<"h","i","g","h","e","s","t"," ","t","e","m","p","e","r","a","t","u","r","e">>
kw_min_salinity ==
    <<"m","i","n"," ","s","a","l","i","n","i","t","y">>
kw_lowest_salinity ==
    <<"l","o","w","e","s","t"," ","s","a","l","i","n","i","t","y">>
kw_mld ==
    <<"m","l","d">>
kw_mixed_layer ==
    <<"m","i","x","e","d"," ","l","a","y","e","r">>
kw_where ==
    <<"w","h","e","r","e">>
kw_gt ==
    <<">">>
kw_lt ==
    <<"<">>
col_temperature ==
    <<"t","e","m","p","e","r","a","t","u","r","e">>
col_salinity ==
    <<"s","a","l","i","n","i","t","y">>

(***************************************************************************)
(* The dispatcher's rule table: the conditions of the if/elif chain, in    *)
(* the order of the source.                                                *)
(***************************************************************************)
Rule1(q) == Contains(q, kw_how_many_profiles) \/ Contains(q, kw_count_profiles)
Rule2(q) == Contains(q, kw_latest_profile) \/ Contains(q, kw_last_profile)
Rule3(q) == Contains(q, kw_max_temperature) \/ Contains(q, kw_highest_temperature)
Rule4(q) == Contains(q, kw_min_salinity) \/ Contains(q, kw_lowest_salinity)
Rule5(q) == Contains(q, kw_mld) \/ Contains(q, kw_mixed_layer)
Rule6(q) == Contains(q, kw_where) /\ (Contains(q, kw_gt) \/ Contains(q, kw_lt))

\* fault: the branches of rules 5 and 6 in the other order
MutRuleOfSwapped(q) ==
    IF Rule1(q) THEN 1
    ELSE IF Rule2(q) THEN 2
    ELSE IF Rule3(q) THEN 3
    ELSE IF Rule4(q) THEN 4
    ELSE IF Rule6(q) THEN 6
    ELSE IF Rule5(q) THEN 5
    ELSE 7

\* the branch of the if/elif/else chain that is taken on q_lower
RuleOf(q) ==
    IF Rule1(q) THEN 1
    ELSE IF Rule2(q) THEN 2
    ELSE IF Rule3(q) THEN 3
    ELSE IF Rule4(q) THEN 4
    ELSE IF Rule5(q) THEN 5
    ELSE IF Rule6(q) THEN 6
    ELSE 7

(***************************************************************************)
(* re.search with the pattern of line 174: a column name, whitespace, an  *)
(* operator, whitespace, an unsigned decimal number.                       *)
(***************************************************************************)
NoMatch == [matched |-> FALSE]

\* fault: group 1 written as a run of letters, any word
MutColumnAtAnyWord(s, i) ==
    SubSeq(s, i, SkipWhile(s, i, {LowerOf[c] : c \in DOMAIN LowerOf}) - 1)

\* group 1, (temperature|salinity), tried at index i
ColumnAt(s, i) ==
    IF HasAt(s, i, col_temperature) THEN col_temperature
    ELSE IF HasAt(s, i, col_salinity) THEN col_salinity
    ELSE <<>>

\* group 3, digits, an optional dot, optional digits, tried at index b: the
\* index after its last character, or b when there is no leading digit
NumberEnd(s, b) ==
    LET c == SkipWhile(s, b, Digits)
        d == IF c <= Len(s) /\ s[c] = "." THEN c + 1 ELSE c
    IN  IF c = b THEN b ELSE SkipWhile(s, d, Digits)

\* the pattern tried at index i. No quantifier of the pattern can give a
\* character back to what follows it, so the greedy match is the only one.
ReMatchAt(s, i) ==
    LET col   == ColumnAt(s, i)
        a     == SkipWhile(s, i + Len(col), Whitespace)
        opLen == IF a <= Len(s) /\ s[a] \in {"<", ">"}
                 THEN (IF a + 1 <= Len(s) /\ s[a + 1] = "=" THEN 2 ELSE 1)
                 ELSE 0
        b     == SkipWhile(s, a + opLen, Whitespace)
        e     == NumberEnd(s, b)
    IN  IF col = <<>> \/ opLen = 0 \/ e = b
        THEN NoMatch
        ELSE [matched |-> TRUE, start |-> i, end |-> e - 1, col |-> col,
              op |-> SubSeq(s, a, a + opLen - 1), val |-> SubSeq(s, b, e - 1)]

\* re.search scans the start positions from the left and returns the first
\* match
RECURSIVE ReSearchFrom(_, _)
ReSearchFrom(s, i) ==
    IF i > Len(s) THEN NoMatch
    ELSE IF ReMatchAt(s, i).matched THEN ReMatchAt(s, i)
    ELSE ReSearchFrom(s, i + 1)

\* fault: the start positions scanned from the right, the last match returned
RECURSIVE MutReSearchBack(_, _)
MutReSearchBack(s, i) ==
    IF i < 1 THEN NoMatch
    ELSE IF ReMatchAt(s, i).matched THEN ReMatchAt(s, i)
    ELSE MutReSearchBack(s, i - 1)

MutReSearchLast(s) == MutReSearchBack(s, Len(s))

ReSearch(s) == ReSearchFrom(s, 1)

(***************************************************************************)
(* float(val): a decimal literal as the number it denotes, mant / 10^exp   *)
(* with the sign apart, trailing zeros of the fraction dropped so that     *)
(* equal numbers are equal records.                                        *)
(***************************************************************************)
RECURSIVE DigitsValue(_)
DigitsValue(ds) ==
    IF ds = <<>> THEN 0
    ELSE 10 * DigitsValue(SubSeq(ds, 1, Len(ds) - 1)) + DigitValue[ds[Len(ds)]]

RECURSIVE Normalize(_)
Normalize(x) ==
    IF x.exp > 0 /\ x.mant % 10 = 0
    THEN Normalize([x EXCEPT !.mant = x.mant \div 10, !.exp = x.exp - 1])
    ELSE x

FloatOf(val) ==
    LET neg    == Len(val) > 0 /\ val[1] = "-"
        body   == IF neg THEN Tail(val) ELSE val
        digits == SelectSeq(body, LAMBDA c : c \in Digits)
        dots   == {i \in 1..Len(body) : body[i] = "."}
        exp    == IF dots = {} THEN 0 ELSE Len(body) - (CHOOSE i \in dots : TRUE)
    IN  Normalize([neg |-> neg, mant |-> DigitsValue(digits), exp |-> exp])

(***************************************************************************)
(* The measurements table.  A nullable column holds {} (SQL NULL) or {v}.  *)
(* Profile dates are day numbers: the order of the ISO date strings is     *)
(* the order of the days.                                                  *)
(***************************************************************************)
NULL == {}

Value(x) == CHOOSE v \in x : TRUE

Measurement(f, d, z, t) ==
    [float_id |-> f, profile_date |-> d, depth |-> z, temperature |-> t,
     salinity |-> {35}, mld |-> NULL]

\* the rows a table is built from, in a fixed order (not the order of their
\* keys): float F1 with every date (NULL too) at two depths, two more of its
\* rows that tie with others on (profile_date, depth) and differ in
\* temperature, float F2 with two rows
RowList ==
    << Measurement("F2", {1}, 10, {5}),  Measurement("F1", {2}, 20, {5}),
       Measurement("F1", {2}, 10, NULL), Measurement("F1", {2}, 10, {5}),
       Measurement("F1", {1}, 20, {5}),  Measurement("F1", {1}, 10, NULL),
       Measurement("F1", {1}, 10, {5}),  Measurement("F1", NULL, 20, {5}),
       Measurement("F1", NULL, 10, {5}), Measurement("F2", NULL, 10, {5}) >>

\* identifiers passed to get_profiles; no row belongs to F9
FloatIdArgs == {"F1", "F2", "F9"}

\* the tables of at most n rows (a row may repeat: the table has no key)
Stores(n) ==
    {[i \in DOMAIN ix |-> RowList[ix[i]]] :
        ix \in {s \in UNION {[1..k -> DOMAIN RowList] : k \in 0..n} :
                  \A i \in DOMAIN s : i = 1 \/ s[i - 1] <= s[i]}}

\* one float whose three rows repeat a date at two depths
ExampleStore ==
    << Measurement("F1", {2}, 10, {5}), Measurement("F1", {1}, 20, {5}),
       Measurement("F1", {1}, 10, {5}) >>

(***************************************************************************)
(* The SQL statements, as SQLite evaluates them.                           *)
(***************************************************************************)
\* WHERE float_id=?
WhereFloat(rows, f) == SelectSeq(rows, LAMBDA r : r.float_id = f)

\* ascending order of a column: NULL sorts before every value
NullableLess(a, b) ==
    \/ a = NULL /\ b # NULL
    \/ a # NULL /\ b # NULL /\ Value(a) < Value(b)

\* ORDER BY profile_date, depth
KeyLessEq(r1, r2) ==
    \/ NullableLess(r1.profile_date, r2.profile_date)
    \/ r1.profile_date = r2.profile_date /\ r1.depth <= r2.depth

\* the arrangements of rows
Arrangements(rows) ==
    LET n == Len(rows)
    IN  {[i \in 1..n |-> rows[p[i]]] :
            p \in {q \in [1..n -> 1..n] : \A i, j \in 1..n : i # j => q[i] # q[j]}}

\* the orders ORDER BY profile_date, depth may return rows in: every
\* arrangement in which the keys do not decrease (the order of rows with
\* equal keys is not fixed)
OrderBy(rows) ==
    {s \in Arrangements(rows) :
        \A i \in DOMAIN s : i = 1 \/ KeyLessEq(s[i - 1], s[i])}

\* LIMIT n: SQLite reads a negative limit as no limit
Limit(rows, n) ==
    IF n < 0 \/ n >= Len(rows) THEN rows ELSE SubSeq(rows, 1, n)

\* the columns get_profiles selects
ProfileColumns(r) ==
    [profile_date |-> r.profile_date, depth |-> r.depth,
     temperature |-> r.temperature, salinity |-> r.salinity, mld |-> r.mld]

\* SELECT float_id, COUNT(*) AS n FROM measurements GROUP BY float_id
\* (the order of the groups plays no part: the frame is kept as a set)
SummaryQuery(rows) ==
    {[float_id |-> f, n |-> Len(WhereFloat(rows, f))] :
        f \in {rows[i].float_id : i \in DOMAIN rows}}

\* fault: the statement without its ORDER BY clause: the rows in any order
MutProfilesUnordered(rows, f, n) ==
    LET mine == WhereFloat(rows, f)
        cols == [i \in DOMAIN mine |-> ProfileColumns(mine[i])]
    IN  {Limit(s, n) : s \in Arrangements(cols)}

\* SELECT profile_date, depth, temperature, salinity, mld FROM measurements
\* WHERE float_id=? ORDER BY profile_date, depth LIMIT ?
ProfilesQuery(rows, f, n) ==
    LET mine == WhereFloat(rows, f)
        cols == [i \in DOMAIN mine |-> ProfileColumns(mine[i])]
    IN  {Limit(s, n) : s \in OrderBy(cols)}

\* fault: COUNT(profile_date), every non-NULL date counted
MutCountEvery(rows, seen) ==
    Len(SelectSeq(rows, LAMBDA r : r.profile_date # NULL))

\* COUNT(DISTINCT profile_date): the rows are read one by one, a NULL is
\* skipped, a date counts the first time it is seen
RECURSIVE CountDistinct(_, _)
CountDistinct(rows, seen) ==
    IF rows = <<>> THEN Cardinality(seen)
    ELSE IF Head(rows).profile_date = NULL THEN CountDistinct(Tail(rows), seen)
    ELSE CountDistinct(Tail(rows), seen \cup {Head(rows).profile_date})

\* SELECT COUNT(DISTINCT profile_date) AS profiles FROM measurements
\* WHERE float_id=?
CountProfilesQuery(rows, f) == CountDistinct(WhereFloat(rows, f), {})

\* fault: the statement without AND profile_date IS NOT NULL (in descending
\* order a NULL comes last)
MutLatestWithNull(rows, f) ==
    LET kept   == WhereFloat(rows, f)
        groups == {kept[i].profile_date : i \in DOMAIN kept}
    IN  IF groups = {} THEN <<>>
        ELSE <<CHOOSE d \in groups : \A e \in groups : ~NullableLess(d, e)>>

\* SELECT profile_date FROM measurements WHERE float_id=? AND profile_date
\* IS NOT NULL GROUP BY profile_date ORDER BY profile_date DESC LIMIT 1
LatestProfileQuery(rows, f) ==
    LET kept   == SelectSeq(WhereFloat(rows, f), LAMBDA r : r.profile_date # NULL)
        groups == {kept[i].profile_date : i \in DOMAIN kept}
    IN  IF groups = {} THEN <<>>
        ELSE <<CHOOSE d \in groups : \A e \in groups : ~NullableLess(d, e)>>

(***************************************************************************)
(* What the dispatcher sends to the store and to the page.                 *)
(***************************************************************************)
\* a statement handed to read_sql_query: its text, and the texts that the
\* f-string of rule 6 puts in place of {col} and {op} (none elsewhere)
Statement(text, col, op, params) ==
    [text |-> text, col |-> col, op |-> op, params |-> params]

\* a bound parameter: a Python str binds as TEXT, a float as REAL, an int as
\* INTEGER
Param(type, value) == [type |-> type, value |-> value]

\* reply(text), with the values the f-string formats into it
Message(text, args) == [text |-> text, args |-> args]

SqlSummary == "SELECT float_id, COUNT(*) AS n FROM measurements GROUP BY float_id"
SqlProfiles == "SELECT profile_date, depth, temperature, salinity, mld FROM measurements WHERE float_id=? ORDER BY profile_date, depth LIMIT ?"
SqlCount == "SELECT COUNT(DISTINCT profile_date) AS profiles FROM measurements WHERE float_id=?"
SqlLatest == "SELECT profile_date FROM measurements WHERE float_id=? AND profile_date IS NOT NULL GROUP BY profile_date ORDER BY profile_date DESC LIMIT 1"
SqlMaxTemp == "SELECT profile_date, MAX(temperature) AS max_temp FROM measurements WHERE float_id=? GROUP BY profile_date ORDER BY max_temp DESC LIMIT 5"
SqlMinSal == "SELECT profile_date, MIN(salinity) AS min_sal FROM measurements WHERE float_id=? GROUP BY profile_date ORDER BY min_sal ASC LIMIT 5"
SqlMld == "SELECT profile_date, ROUND(AVG(mld),1) AS avg_mld, ROUND(MIN(mld),1) AS min_mld, ROUND(MAX(mld),1) AS max_mld FROM measurements WHERE float_id=? GROUP BY profile_date ORDER BY profile_date DESC LIMIT 10"
SqlFilter == "SELECT profile_date, depth, {col} FROM measurements WHERE float_id=? AND {col} {op} ? ORDER BY profile_date, depth LIMIT 500"

\* the texts of reply(...); the backquotes of the source are written as quotes
MsgCount == "This float has {n} profiles."
MsgLatest == "The most recent profile date is {profile_date}."
MsgNoDates == "No profile dates found."
MsgMaxTemp == "Top 5 profiles by peak temperature:"
MsgMinSal == "Top 5 freshest profiles (lowest salinity):"
MsgMld == "Recent mixed layer depth statistics:"
MsgFilter == "Showing rows where {col} {op} {val}:"
MsgUsage == "Please use a format like: 'where salinity > 36.5'."
MsgHelp == "Sorry, I don't understand. Try: 'How many profiles?', 'Latest profile?', 'Max temperature', 'Min salinity', 'MLD summary', 'Where salinity > 36.5'."

\* Each branch of the chain as the statements it hands to read_sql_query and
\* the replies it writes once they have returned.  The tables that rules 3
\* to 6 pass to st.table / st.dataframe are drawn on the page and read by
\* nothing else; they are not carried in the state.
CountProfiles(rows, f) ==
    [stmts   |-> <<Statement(SqlCount, <<>>, <<>>, <<Param("TEXT", f)>>)>>,
     replies |-> <<Message(MsgCount, <<CountProfilesQuery(rows, f)>>)>>]

LatestProfile(rows, f) ==
    LET df_q == LatestProfileQuery(rows, f)
    IN  [stmts   |-> <<Statement(SqlLatest, <<>>, <<>>, <<Param("TEXT", f)>>)>>,
         replies |-> IF df_q # <<>>
                     THEN <<Message(MsgLatest, <<df_q[1]>>)>>
                     ELSE <<Message(MsgNoDates, <<>>)>>]

TopTemperature(rows, f) ==
    [stmts   |-> <<Statement(SqlMaxTemp, <<>>, <<>>, <<Param("TEXT", f)>>)>>,
     replies |-> <<Message(MsgMaxTemp, <<>>)>>]

BottomSalinity(rows, f) ==
    [stmts   |-> <<Statement(SqlMinSal, <<>>, <<>>, <<Param("TEXT", f)>>)>>,
     replies |-> <<Message(MsgMinSal, <<>>)>>]

MldSummary(rows, f) ==
    [stmts   |-> <<Statement(SqlMld, <<>>, <<>>, <<Param("TEXT", f)>>)>>,
     replies |-> <<Message(MsgMld, <<>>)>>]

FilteredRows(q, f) ==
    LET m == ReSearch(q)
    IN  IF m.matched
        THEN [stmts   |-> <<Statement(SqlFilter, m.col, m.op,
                              <<Param("TEXT", f), Param("REAL", FloatOf(m.val))>>)>>,
              replies |-> <<Message(MsgFilter, <<m.col, m.op, m.val>>)>>]
        ELSE [stmts   |-> <<>>,
              replies |-> <<Message(MsgUsage, <<>>)>>]

\* fault: the help message made to quote what was typed
MutUnrecognizedEcho(q) ==
    [stmts |-> <<>>, replies |-> <<Message(MsgHelp, <<q>>)>>]

Unrecognized(q) ==
    [stmts |-> <<>>, replies |-> <<Message(MsgHelp, <<>>)>>]

\* the body of the branch that RuleOf selects
Handler(r, q, rows, f) ==
    CASE r = 1 -> CountProfiles(rows, f)
      [] r = 2 -> LatestProfile(rows, f)
      [] r = 3 -> TopTemperature(rows, f)
      [] r = 4 -> BottomSalinity(rows, f)
      [] r = 5 -> MldSummary(rows, f)
      [] r = 6 -> FilteredRows(q, f)
      [] OTHER -> Unrecognized(q)

(***************************************************************************)
(* What the user may type: phrases, and up to MaxPhrases of them joined.   *)
(***************************************************************************)
ph_HowMany ==
    <<"H","o","w"," ","m","a","n","y"," ","p","r","o","f","i","l","e","s","?">>
ph_Count ==
    <<"c","o","u","n","t"," ","p","r","o","f","i","l","e","s">>
ph_Latest ==
    <<"L","a","t","e","s","t"," ","p","r","o","f","i","l","e","?">>
ph_Last ==
    <<"l","a","s","t"," ","p","r","o","f","i","l","e">>
ph_MaxTemp ==
    <<"M","a","x"," ","t","e","m","p","e","r","a","t","u","r","e">>
ph_Highest ==
    <<"h","i","g","h","e","s","t"," ","t","e","m","p","e","r","a","t","u","r","e">>
ph_MinSal ==
    <<"M","i","n"," ","s","a","l","i","n","i","t","y">>
ph_Lowest ==
    <<"l","o","w","e","s","t"," ","s","a","l","i","n","i","t","y">>
ph_MLD ==
    <<"M","L","D"," ","s","u","m","m","a","r","y">>
ph_Mixed ==
    <<"m","i","x","e","d"," ","l","a","y","e","r">>
ph_Weather ==
    <<"w","h","a","t"," ","i","s"," ","t","h","e"," ","w","e","a","t","h","e","r">>
ph_Space ==
    <<" ">>
ph_Where ==
    <<"w","h","e","r","e">>
ph_WhereTemp ==
    <<"w","h","e","r","e"," ","t","e","m","p","e","r","a","t","u","r","e"," ",">"," ","2","5",".","5">>
ph_AndSal ==
    <<" ","a","n","d"," ","w","h","e","r","e"," ","s","a","l","i","n","i","t","y","<","=","3","5">>
ph_WhereSalNeg ==
    <<"W","h","e","r","e"," ","s","a","l","i","n","i","t","y"," ",">"," ","-","2">>
ph_TempNeg ==
    <<"t","e","m","p","e","r","a","t","u","r","e"," ","<"," ","-","1",".","5"," ">>
ph_WhereFoo ==
    <<"w","h","e","r","e"," ","f","o","o"," ",">"," ","5">>
ph_Missing ==
    <<"w","h","e","r","e"," ","s","a","l","i","n","i","t","y"," ",">">>
ph_NonNumeric ==
    <<"s","a","l","i","n","i","t","y"," ",">","="," ","x">>
ph_TrailingDot ==
    <<"t","e","m","p","e","r","a","t","u","r","e",">","2",".">>

Phrases ==
    {ph_HowMany, ph_Count, ph_Latest, ph_Last, ph_MaxTemp, ph_Highest,
     ph_MinSal, ph_Lowest, ph_MLD, ph_Mixed, ph_Weather, ph_Space, ph_Where,
     ph_WhereTemp, ph_AndSal, ph_WhereSalNeg, ph_TempNeg, ph_WhereFoo,
     ph_Missing, ph_NonNumeric, ph_TrailingDot}

RECURSIVE Joined(_)
Joined(n) ==
    IF n = 0 THEN {<<>>}
    ELSE Joined(n - 1) \cup {s \o p : s \in Joined(n - 1), p \in Phrases}

\* every text of at most MaxPhrases phrases, the empty text among them
Queries == Joined(MaxPhrases)

\* questions the page suggests, and no question
CannedQueries ==
    {<<>>, ph_HowMany, ph_Latest, ph_MaxTemp, ph_MinSal, ph_MLD, ph_WhereTemp}

(***************************************************************************)
(* State.                                                                  *)
(***************************************************************************)
VARIABLES
    store,          \* the measurements table; this program never writes it
    summaryCache,   \* st.cache_data of get_summary: <<>> or <<frame>>
    profilesCache,  \* st.cache_data of get_profiles: (float_id, max_rows) -> frame
    openConns,      \* connections opened and not closed
    pc,             \* where the script run is
    summary,        \* summary (line 35)
    chosen,         \* chosen (line 41), or the float_id of a direct call
    max_rows,       \* the max_rows of the last get_profiles call
    data,           \* data (line 42)
    warning,        \* the st.warning of this run, empty when none
    query,          \* query (line 77)
    q_lower,        \* q_lower (line 83)
    rule,           \* the branch of the chain this run took, 0 when none
    executed,       \* the statements the last operation handed to read_sql_query
    replies,        \* the reply(...) messages of this run
    io              \* the connection events of the last operation: <<who, event>>

vars ==
    <<store, summaryCache, profilesCache, openConns, pc, summary, chosen,
      max_rows, data, warning, query, q_lower, rule, executed, replies, io>>

scriptVars ==
    <<summary, chosen, max_rows, data, warning, query, q_lower, rule,
      executed, replies, io>>

\* read_sql_query returns, or raises a storage error
Outcomes == {"ok", "query_error"}

WarnNoFloats == "No floats found in database."
WarnNoData == "No data for selected float."

\* the script's variables before its first line has run
Fresh ==
    /\ summary = {}
    /\ chosen = ""
    /\ max_rows = 0
    /\ data = <<>>
    /\ warning = ""
    /\ query = <<>>
    /\ q_lower = <<>>
    /\ rule = 0
    /\ executed = <<>>
    /\ replies = <<>>
    /\ io = <<>>

\* the same, as the start of the next run
StartOver ==
    /\ summary' = {}
    /\ chosen' = ""
    /\ max_rows' = 0
    /\ data' = <<>>
    /\ warning' = ""
    /\ query' = <<>>
    /\ q_lower' = <<>>
    /\ rule' = 0
    /\ executed' = <<>>
    /\ replies' = <<>>
    /\ io' = <<>>

InitWith(tables) ==
    /\ store \in tables
    /\ summaryCache = <<>>
    /\ profilesCache = <<>>
    /\ openConns = 0
    /\ pc = "start"
    /\ Fresh

(***************************************************************************)
(* connect / read_sql_query / close, as the three functions write them:    *)
(* conn.close() follows the read on the next line, outside any finally,    *)
(* so it runs only when the read returns.  stmts is what the operation     *)
(* hands to read_sql_query between the two.                                *)
(***************************************************************************)
StorageCall(who, outcome, stmts) ==
    /\ outcome \in Outcomes
    /\ outcome = "query_error" => stmts # <<>> /\ openConns < MaxLeaked
    /\ io' = IF outcome = "query_error"
             THEN << <<who, "connect">>, <<who, "query_error">> >>
             ELSE << <<who, "connect">>, <<who, "close">> >>
    /\ executed' = stmts
    /\ openConns' = IF outcome = "query_error" THEN openConns + 1 ELSE openConns

\* an operation that opens no connection
NoStorageCall ==
    /\ io' = <<>>
    /\ executed' = <<>>
    /\ openConns' = openConns

(***************************************************************************)
(* get_summary() and lines 35-40, 198-199.                                 *)
(***************************************************************************)
\* summary["float_id"].dropna().astype(str).tolist(), as a set
FloatIdsOf(frame) == {r.float_id : r \in frame}

AfterSummary(frame) ==
    /\ summary' = frame
    /\ IF FloatIdsOf(frame) # {}
       THEN pc' = "select" /\ warning' = warning
       ELSE pc' = "done" /\ warning' = WarnNoFloats

GetSummary ==
    /\ pc = "start"
    /\ UNCHANGED <<store, profilesCache, chosen, max_rows, data, query,
                   q_lower, rule, replies>>
    /\ IF summaryCache # <<>>
       THEN /\ AfterSummary(summaryCache[1])
            /\ NoStorageCall
            /\ UNCHANGED summaryCache
       ELSE \E outcome \in Outcomes :
            /\ StorageCall("get_summary", outcome,
                           <<Statement(SqlSummary, <<>>, <<>>, <<>>)>>)
            /\ IF outcome = "ok"
               THEN /\ summaryCache' = <<SummaryQuery(store)>>
                    /\ AfterSummary(SummaryQuery(store))
               ELSE /\ pc' = "failed"
                    /\ UNCHANGED <<summaryCache, summary, warning>>

(***************************************************************************)
(* get_profiles(float_id, max_rows).                                       *)
(***************************************************************************)
\* one call: a cached frame is returned without touching the store. 'then'
\* is where the caller goes on when the call returns.
GetProfilesCall(f, n, then) ==
    /\ chosen' = f
    /\ max_rows' = n
    /\ IF <<f, n>> \in DOMAIN profilesCache
       THEN /\ data' = profilesCache[<<f, n>>]
            /\ pc' = then
            /\ NoStorageCall
            /\ UNCHANGED profilesCache
       ELSE \E outcome \in Outcomes :
            /\ StorageCall("get_profiles", outcome,
                   <<Statement(SqlProfiles, <<>>, <<>>,
                               <<Param("TEXT", f), Param("INTEGER", n)>>)>>)
            /\ IF outcome = "ok"
               THEN \E df \in ProfilesQuery(store, f, n) :
                    /\ data' = df
                    /\ profilesCache' = (<<f, n>> :> df) @@ profilesCache
                    /\ pc' = then
               ELSE /\ pc' = "failed"
                    /\ UNCHANGED <<data, profilesCache>>

\* lines 41-45, 71-72: the selectbox over float_ids, then get_profiles(chosen)
LoadProfiles ==
    /\ pc = "select"
    /\ \E f \in FloatIdsOf(summary) : GetProfilesCall(f, DefaultMaxRows, "chat")
    /\ warning' = IF pc' = "chat" /\ data' = <<>> THEN WarnNoData ELSE warning
    /\ UNCHANGED <<store, summaryCache, summary, query, q_lower, rule, replies>>

\* get_profiles called on its own, with any identifier and any max_rows
CallGetProfiles ==
    /\ pc = "start"
    /\ \E f \in FloatIdArgs, n \in 0..MaxRowsArg : GetProfilesCall(f, n, "returned")
    /\ UNCHANGED <<store, summaryCache, summary, warning, query, q_lower,
                   rule, replies>>

(***************************************************************************)
(* Lines 77-196: the text input and the dispatcher.                        *)
(***************************************************************************)
ChatInput(texts) ==
    /\ pc = "chat"
    /\ \E text \in texts :
       /\ query' = text
       /\ IF ~Truthy(text)
          THEN /\ pc' = "done"
               /\ NoStorageCall
               /\ UNCHANGED <<q_lower, rule, replies>>
          ELSE LET q == Lower(Strip(text))
                   r == RuleOf(q)
                   h == Handler(r, q, store, chosen)
               IN  \E outcome \in Outcomes :
                   /\ StorageCall("chat", outcome, h.stmts)
                   /\ q_lower' = q
                   /\ rule' = r
                   /\ replies' = IF outcome = "ok" THEN h.replies ELSE <<>>
                   /\ pc' = IF outcome = "ok" THEN "done" ELSE "failed"
    /\ UNCHANGED <<store, summaryCache, profilesCache, summary, chosen,
                   max_rows, data, warning>>

\* the user types into the text box
ChatAsk == ChatInput(Queries)

\* the user asks one of the suggested questions
ChatCanned == ChatInput(CannedQueries)

(***************************************************************************)
(* The environment of a script run.                                        *)
(***************************************************************************)
\* Streamlit runs the script again: its variables start over, the two
\* caches and whatever was left open stay
Rerun ==
    /\ pc \in {"done", "failed"}
    /\ pc' = "start"
    /\ StartOver
    /\ UNCHANGED <<store, summaryCache, profilesCache, openConns>>

\* a connection object that nothing refers to any more is finalized by the
\* interpreter at a time of its choosing, which closes it
Finalize ==
    /\ openConns > 0
    /\ pc \in {"done", "failed", "returned"}
    /\ openConns' = openConns - 1
    /\ UNCHANGED <<store, summaryCache, profilesCache, pc, scriptVars>>

\* the server process is started anew
Restart ==
    /\ pc # "start"
    /\ summaryCache' = <<>>
    /\ profilesCache' = <<>>
    /\ openConns' = 0
    /\ pc' = "start"
    /\ StartOver
    /\ UNCHANGED store

(***************************************************************************)
(* Specifications.                                                         *)
(***************************************************************************)
\* the page over every table of at most MaxStoreRows rows, asked the
\* suggested questions
Init == InitWith(Stores(MaxStoreRows))

Next ==
    \/ GetSummary
    \/ LoadProfiles
    \/ ChatCanned
    \/ Rerun
    \/ Finalize
    \/ Restart

Spec == Init /\ [][Next]_vars

\* the page over the example table, asked every text of Queries
InitChat == InitWith({ExampleStore})

NextChat ==
    \/ GetSummary
    \/ LoadProfiles
    \/ ChatAsk
    \/ Rerun
    \/ Finalize
    \/ Restart

SpecChat == InitChat /\ [][NextChat]_vars

\* get_profiles on its own over every table of at most MaxStoreRows rows
InitProfiles == InitWith(Stores(MaxStoreRows))

NextProfiles ==
    \/ CallGetProfiles
    \/ Finalize
    \/ Restart

SpecProfiles == InitProfiles /\ [][NextProfiles]_vars

(***************************************************************************)
(* Properties.                                                             *)
(***************************************************************************)
SetMin(S) == CHOOSE x \in S : \A y \in S : x <= y
SetMax(S) == CHOOSE x \in S : \A y \in S : x >= y

\* the dispatcher ran in this script run
Dispatched == rule # 0

\* the script run has ended
Ended == pc \in {"done", "failed"}

\* the ordered rule table as the specification gives it: the substring
\* condition of rule k on the normalized text q
TableCondition(k, q) ==
    CASE k = 1 -> Contains(q, kw_how_many_profiles) \/ Contains(q, kw_count_profiles)
      [] k = 2 -> Contains(q, kw_latest_profile) \/ Contains(q, kw_last_profile)
      [] k = 3 -> Contains(q, kw_max_temperature) \/ Contains(q, kw_highest_temperature)
      [] k = 4 -> Contains(q, kw_min_salinity) \/ Contains(q, kw_lowest_salinity)
      [] k = 5 -> Contains(q, kw_mld) \/ Contains(q, kw_mixed_layer)
      [] k = 6 -> Contains(q, kw_where) /\ (Contains(q, kw_gt) \/ Contains(q, kw_lt))
      [] OTHER -> TRUE

\* the statement and the messages that belong to the handler of rule k
SqlOfRule(k) ==
    CASE k = 1 -> {SqlCount}
      [] k = 2 -> {SqlLatest}
      [] k = 3 -> {SqlMaxTemp}
      [] k = 4 -> {SqlMinSal}
      [] k = 5 -> {SqlMld}
      [] k = 6 -> {SqlFilter}
      [] OTHER -> {}

MsgOfRule(k) ==
    CASE k = 1 -> {MsgCount}
      [] k = 2 -> {MsgLatest, MsgNoDates}
      [] k = 3 -> {MsgMaxTemp}
      [] k = 4 -> {MsgMinSal}
      [] k = 5 -> {MsgMld}
      [] k = 6 -> {MsgFilter, MsgUsage}
      [] OTHER -> {MsgHelp}

\* C1: a dispatched text is handled by exactly one handler, that of the
\* lowest-numbered rule of the table whose condition holds on the trimmed,
\* lower-cased text; no statement or message of another rule appears. A text
\* with an mld keyword and a where-condition never reaches FilteredRows, and
\* reaches MldSummary when rules 1 to 4 do not hold.
C1_FirstMatchWins ==
    Dispatched =>
        LET q == Lower(Strip(query))
        IN  /\ q_lower = q
            /\ rule \in 1..7
            /\ TableCondition(rule, q)
            /\ \A k \in 1..6 : k < rule => ~TableCondition(k, q)
            /\ Len(executed) <= 1
            /\ \A i \in DOMAIN executed : executed[i].text \in SqlOfRule(rule)
            /\ pc = "done" =>
                 Len(replies) = 1 /\ replies[1].text \in MsgOfRule(rule)
            /\ TableCondition(5, q) /\ TableCondition(6, q) =>
                 /\ rule # 6
                 /\ (\A k \in 1..4 : ~TableCondition(k, q)) => rule = 5

\* an mld keyword together with a where-condition on salinity, answered by
\* MldSummary
C1_Witness ==
    /\ pc = "done"
    /\ rule = 5
    /\ Contains(q_lower, kw_where)
    /\ ReSearch(q_lower).matched
    /\ ReSearch(q_lower).col = col_salinity
    /\ replies = <<Message(MsgMld, <<>>)>>
    /\ executed # <<>>
    /\ executed[1].text = SqlMld

\* C2: a text that is empty once trimmed is never dispatched: no rule is
\* evaluated, the dispatcher opens no connection and writes no message.
C2_BlankNeverDispatched ==
    (Ended /\ Strip(query) = <<>>) =>
        /\ rule = 0
        /\ \A i \in DOMAIN io : io[i][1] # "chat"
        /\ replies = <<>>

\* the columns and the operators of a condition
ClaimColumns == {col_temperature, col_salinity}
ClaimOperators == {<<"<">>, <<"<", "=">>, <<">">>, <<">", "=">>}

\* the first index at or after p of s that holds no whitespace
AfterSpaces(s, p) ==
    CHOOSE k \in p..(Len(s) + 1) :
        /\ k = Len(s) + 1 \/ s[k] \notin Whitespace
        /\ \A j \in p..(k - 1) : s[j] \in Whitespace

\* t is a decimal number: digits with at most one dot after the first digit,
\* behind a minus sign when signed
IsUnsignedNumber(t) ==
    /\ t # <<>>
    /\ t[1] \in Digits
    /\ \A i \in DOMAIN t : t[i] \in Digits \cup {"."}
    /\ Cardinality({i \in DOMAIN t : t[i] = "."}) <= 1

IsNumber(t, signed) ==
    \/ IsUnsignedNumber(t)
    \/ signed /\ Len(t) > 1 /\ t[1] = "-" /\ IsUnsignedNumber(Tail(t))

\* the condition that starts at index i of s, if one does: a column name,
\* an operator and a number (the longest that can be read), whitespace
\* allowed between them; a set of at most one element
ConditionAt(s, i, signed) ==
    LET cols == {c \in ClaimColumns : HasAt(s, i, c)}
    IN  IF cols = {} THEN {}
        ELSE
          LET c   == CHOOSE x \in cols : TRUE
              a   == AfterSpaces(s, i + Len(c))
              ops == {o \in ClaimOperators : HasAt(s, a, o)}
          IN  IF ops = {} THEN {}
              ELSE
                LET o    == CHOOSE x \in ops : \A y \in ops : Len(y) <= Len(x)
                    b    == AfterSpaces(s, a + Len(o))
                    ends == {e \in b..Len(s) : IsNumber(SubSeq(s, b, e), signed)}
                IN  IF ends = {} THEN {}
                    ELSE {[col |-> c, op |-> o, text |-> SubSeq(s, b, SetMax(ends))]}

\* where conditions start in s
ConditionsIn(s, signed) == {i \in 1..Len(s) : ConditionAt(s, i, signed) # {}}

FirstCondition(s, signed) ==
    CHOOSE c \in ConditionAt(s, SetMin(ConditionsIn(s, signed)), signed) : TRUE

\* the one statement FilteredRows executes for condition c
FilterStatement(c) ==
    Statement(SqlFilter, c.col, c.op,
              <<Param("TEXT", chosen), Param("REAL", FloatOf(c.text))>>)

\* C3: in rule 6 a threshold with a leading minus sign is accepted: when the
\* first condition of the text (its number read with an optional minus sign)
\* has a negative number, the filtered query runs with that negative
\* threshold and the usage hint is not returned.
C3_NegativeThresholdAccepted ==
    (rule = 6 /\ pc = "done" /\ ConditionsIn(q_lower, TRUE) # {}) =>
        LET c == FirstCondition(q_lower, TRUE)
        IN  c.text[1] = "-" =>
              /\ executed = <<FilterStatement(c)>>
              /\ replies # <<Message(MsgUsage, <<>>)>>

\* C4: in rule 6, when the text holds a column name, an operator and an
\* unsigned number, the query runs once with the column, operator and
\* threshold of the leftmost such condition; otherwise the usage hint is
\* the reply, nothing is executed and the run does not fail.
C4_FirstConditionOrUsage ==
    /\ (rule = 6 /\ Ended) =>
         IF ConditionsIn(q_lower, FALSE) = {}
         THEN /\ pc = "done"
              /\ executed = <<>>
              /\ replies = <<Message(MsgUsage, <<>>)>>
         ELSE /\ executed = <<FilterStatement(FirstCondition(q_lower, FALSE))>>
              /\ pc = "done" =>
                   Len(replies) = 1 /\ replies[1].text = MsgFilter
    /\ (query = ph_WhereTemp /\ Ended) =>
         /\ executed # <<>>
         /\ executed[1].col = col_temperature
         /\ executed[1].op = <<">">>
         /\ executed[1].params[2].value = [neg |-> FALSE, mant |-> 255, exp |-> 1]
    /\ (query = ph_WhereFoo /\ Ended) =>
         executed = <<>> /\ replies = <<Message(MsgUsage, <<>>)>>

\* two conditions in one text: the query runs on the first, the second is
\* ignored
C4_Witness ==
    /\ pc = "done"
    /\ rule = 6
    /\ Cardinality(ConditionsIn(q_lower, FALSE)) = 2
    /\ FirstCondition(q_lower, FALSE).col = col_temperature
    /\ executed # <<>>
    /\ executed[1].col = col_temperature
    /\ executed[1].params[2].value = [neg |-> FALSE, mant |-> 255, exp |-> 1]

\* the statements of rules 1 to 5
FixedSql == {SqlCount, SqlLatest, SqlMaxTemp, SqlMinSal, SqlMld}

\* C5: the text of every executed statement is one of the fixed templates;
\* only the template of rule 6 has places for user text, filled with a
\* column of {temperature, salinity} and an operator of {<, <=, >, >=}; the
\* float identifier and the threshold are bound parameters, the threshold a
\* floating-point number.
C5_InjectionBoundary ==
    \A i \in DOMAIN executed :
        LET st == executed[i]
        IN  /\ st.text \in FixedSql \cup {SqlFilter, SqlSummary, SqlProfiles}
            /\ st.text # SqlFilter => st.col = <<>> /\ st.op = <<>>
            /\ st.text \in FixedSql => st.params = <<Param("TEXT", chosen)>>
            /\ st.text = SqlFilter =>
                 /\ rule = 6
                 /\ st.col \in ClaimColumns
                 /\ st.op \in ClaimOperators
                 /\ Len(st.params) = 2
                 /\ st.params[1] = Param("TEXT", chosen)
                 /\ st.params[2].type = "REAL"
                 /\ st.params[2].value.mant \in Nat
                 /\ st.params[2].value.exp \in Nat

\* the filtered statement has been executed
C5_Witness ==
    /\ pc = "done"
    /\ rule = 6
    /\ executed # <<>>
    /\ executed[1].text = SqlFilter
    /\ executed[1].col = col_salinity
    /\ executed[1].op = <<"<", "=">>

\* C6: a dispatched text on which none of rules 1 to 6 holds gets the one
\* fixed help message, whatever the text, and no statement is executed.
C6_UnrecognizedHelp ==
    (Dispatched /\ \A k \in 1..6 : ~TableCondition(k, q_lower)) =>
        /\ pc = "done"
        /\ replies = <<Message(MsgHelp, <<>>)>>
        /\ executed = <<>>

C6_Witness ==
    /\ pc = "done"
    /\ query = ph_Weather
    /\ rule = 7
    /\ replies = <<Message(MsgHelp, <<>>)>>

\* the rows of float f in the table, and its profile dates (a NULL is no
\* date)
RowsOf(f) == {i \in DOMAIN store : store[i].float_id = f}

DatesOf(f) ==
    {store[i].profile_date : i \in {j \in RowsOf(f) : store[j].profile_date # NULL}}

\* C7: CountProfiles answers with the number of distinct profile dates among
\* the rows of the chosen float, a date repeated at several depths counted
\* once and the rows of other floats not at all.
C7_CountDistinctDates ==
    (rule = 1 /\ pc = "done") =>
        replies = <<Message(MsgCount, <<Cardinality(DatesOf(chosen))>>)>>

\* three rows with the dates d1, d1, d2: the answer is 2
C7_Witness ==
    /\ pc = "done"
    /\ rule = 1
    /\ Cardinality(RowsOf(chosen)) = 3
    /\ Cardinality({i \in RowsOf(chosen) : store[i].profile_date = {1}}) = 2
    /\ Cardinality({i \in RowsOf(chosen) : store[i].profile_date = {2}}) = 1
    /\ replies = <<Message(MsgCount, <<2>>)>>

\* C8: LatestProfile answers with the greatest non-NULL profile date of the
\* chosen float, and with the not-found message when the float has none; a
\* NULL is never given as the latest date.
C8_LatestOrNotFound ==
    (rule = 2 /\ pc = "done") =>
        IF DatesOf(chosen) = {}
        THEN replies = <<Message(MsgNoDates, <<>>)>>
        ELSE /\ Len(replies) = 1
             /\ replies[1].text = MsgLatest
             /\ Len(replies[1].args) = 1
             /\ replies[1].args[1] \in DatesOf(chosen)
             /\ \A d \in DatesOf(chosen) : Value(d) <= Value(replies[1].args[1])

\* a float whose rows all have a NULL date: not found, and no failure
C8_Witness ==
    /\ pc = "done"
    /\ rule = 2
    /\ RowsOf(chosen) # {}
    /\ DatesOf(chosen) = {}
    /\ replies = <<Message(MsgNoDates, <<>>)>>

\* how often x occurs in seq
Occurrences(seq, x) == Cardinality({i \in DOMAIN seq : seq[i] = x})

\* C9: get_profiles(float_id, max_rows) returns rows of that float only, in
\* non-decreasing order of (profile_date, depth), min(max_rows, n) of the
\* float's n rows, and they are the first of that order: no row left out
\* sorts before a row returned. A float without rows gives the empty frame.
C9_ProfilesSortedPrefix ==
    pc = "returned" =>
        LET mine == WhereFloat(store, chosen)
            rows == [i \in DOMAIN mine |-> ProfileColumns(mine[i])]
            n    == Len(rows)
        IN  /\ Len(data) = IF max_rows < n THEN max_rows ELSE n
            /\ \A i \in DOMAIN data :
                 Occurrences(data, data[i]) <= Occurrences(rows, data[i])
            /\ \A i \in DOMAIN data : i = 1 \/ KeyLessEq(data[i - 1], data[i])
            /\ \A j \in DOMAIN rows :
                 Occurrences(data, rows[j]) < Occurrences(rows, rows[j]) =>
                   \A i \in DOMAIN data : KeyLessEq(data[i], rows[j])
            /\ n = 0 => data = <<>>

\* three rows stored out of order, two asked for: the two first in order
C9_Witness ==
    /\ pc = "returned"
    /\ max_rows = 2
    /\ Len(WhereFloat(store, chosen)) = 3
    /\ ~KeyLessEq(WhereFloat(store, chosen)[1], WhereFloat(store, chosen)[2])
    /\ Len(data) = 2
    /\ data[1] # data[2]

\* C10: every connection that get_summary, get_profiles or the dispatcher
\* opens is closed when the operation ends, on every path, a storage error
\* included: between operations no connection is open.
C10_ConnectionsClosed == openConns = 0

=============================================================================
